---- MODULE Spec2Model ----
(***************************************************************************)
(* Plan execution and backup/revert engine of the file organizer:          *)
(* organize.py (validate_plan, create_backup_manifest, perform_file_moves) *)
(* backup.py (revert_organization, cleanup_empty_folders, archive_manifest)*)
(* and the organize task of backend/api/main.py.                           *)
(*                                                                         *)
(* A path is a sequence of components relative to the root directory; a    *)
(* component is a sequence of strings, the '_'-separated tokens of its     *)
(* stem followed by its suffix: a_20260101_000001.txt is                   *)
(* <<"a", "20260101", "000001", ".txt">>.  The file system under the root  *)
(* is a function from the paths that exist to their entries.               *)
(***************************************************************************)
EXTENDS Integers, Sequences, FiniteSets, TLC

VARIABLES
    fs,                 \* the tree under the root: path -> entry
    backupFile,         \* data/backup_manifest.json: <<>> or <<manifest>>
    resultsFile,        \* data/organization_results.json: <<>> or <<results>>
    archive,            \* data/backup_archives: second -> <<>> or <<manifest>>
    clock,              \* datetime.now(), in seconds
    offered,            \* which plans a caller may submit: "any" or "few"
    budget,             \* how many more operations of each kind may start
    pc,                 \* position of the running operation
    mode,               \* "cli" or "api": who called perform_file_moves
    task,               \* status of the API task
    plan,               \* the plan of the running execution
    dry_run,
    issues,             \* what validate_plan returned to the running execution
    idx,                \* loop index of the running operation
    folders_created,
    successful_moves,
    failed_moves,
    ret,                \* return value of the last operation
    manifest_file,      \* the path revert_organization was called with
    manifest,           \* the manifest revert_organization loaded
    response,           \* the answer to its confirmation prompt
    successful_reverts,
    failed_reverts,
    integrity_warnings,
    cleanup_count,
    pre,                \* the tree when the running operation started
    last,               \* the operation that ended before this one: <<>> or <<summary>>
    tasks,              \* the tasks dict of the API: task id -> task and its worker
    stream              \* the event generator of /api/events/{task_id} and its client

vars == <<fs, backupFile, resultsFile, archive, clock, offered, budget, pc, mode, task,
          plan, dry_run, issues, idx, folders_created, successful_moves, failed_moves,
          ret, manifest_file, manifest, response, successful_reverts,
          failed_reverts, integrity_warnings, cleanup_count, pre, last, tasks, stream>>

(***************************************************************************)
(* Bounds of the model.                                                    *)
(***************************************************************************)
MaxClock == 1
MaxMoves == 2
MaxReverts == 2

(***************************************************************************)
(* Paths (pathlib).                                                        *)
(***************************************************************************)
stem(c) == SubSeq(c, 1, Len(c) - 1)
suffix(c) == c[Len(c)]
parent(p) == SubSeq(p, 1, Len(p) - 1)
name(p) == p[Len(p)]
IsPrefix(a, p) == Len(a) <= Len(p) /\ SubSeq(p, 1, Len(a)) = a

\* datetime.now().strftime("%Y%m%d_%H%M%S"): two tokens, date and time
Seconds == <<"000000", "000001", "000002", "000003">>
strftime(t) == <<"20260101", Seconds[t + 1]>>

\* f"{dest.stem}_{timestamp}{dest.suffix}" in dest.parent
new_name(dest, t) ==
    parent(dest) \o <<stem(name(dest)) \o strftime(t) \o <<suffix(name(dest))>>>>

\* f"{original_path.stem}_conflict_{timestamp}{original_path.suffix}"
backup_name(original_path, t) ==
    parent(original_path) \o
        <<stem(name(original_path)) \o <<"conflict">> \o strftime(t)
            \o <<suffix(name(original_path))>>>>

(***************************************************************************)
(* The file system: os.path, os.makedirs, shutil.move, hashlib.            *)
(***************************************************************************)
Dir == [kind |-> "dir", content |-> ""]
File(c) == [kind |-> "file", content |-> c]

\* directories on which a call fails with an OSError (a permission is missing):
\* rmdir() of a Locked one, iterdir() of an Unreadable one
Locked == [kind |-> "dir", content |-> "locked"]
Unreadable == [kind |-> "dir", content |-> "unreadable"]
rmdir_raises(f, p) == f[p] = Locked
iterdir_raises(f, p) == f[p] = Unreadable

exists(f, p) == p = <<>> \/ p \in DOMAIN f
is_dir(f, p) == p = <<>> \/ (p \in DOMAIN f /\ f[p].kind = "dir")
is_file(f, p) == p \in DOMAIN f /\ f[p].kind = "file"
Under(f, p) == {q \in DOMAIN f : IsPrefix(p, q)}
Prefixes(p) == {SubSeq(p, 1, i) : i \in 1..Len(p)}
iterdir(f, p) == {q \in DOMAIN f : Len(q) = Len(p) + 1 /\ IsPrefix(p, q)}

\* os.makedirs(p, exist_ok=True): raises when p or an ancestor is a file
makedirs(f, p) ==
    IF \E q \in Prefixes(p) : is_file(f, q)
    THEN [raised |-> TRUE, fs |-> f]
    ELSE [raised |-> FALSE,
          fs |-> [q \in DOMAIN f \cup Prefixes(p) |->
                     IF q \in DOMAIN f THEN f[q] ELSE Dir]]

\* os.rename of src and all below it to dst, replacing what dst held
rename(f, src, dst) ==
    LET moved == Under(f, src)
        kept == DOMAIN f \ (moved \cup Under(f, dst))
        to(q) == dst \o SubSeq(q, Len(src) + 1, Len(q))
        back(q) == src \o SubSeq(q, Len(dst) + 1, Len(q))
    IN [q \in kept \cup {to(m) : m \in moved} |->
           IF IsPrefix(dst, q) /\ back(q) \in moved THEN f[back(q)] ELSE f[q]]

\* shutil.move(src, dst)
shutil_move(f, src, dst) ==
    LET real_dst == IF is_dir(f, dst) /\ src # dst THEN dst \o <<name(src)>> ELSE dst
    IN  IF src = <<>> \/ ~exists(f, src) THEN [raised |-> TRUE, fs |-> f]
        ELSE IF src = dst THEN [raised |-> FALSE, fs |-> f]
        ELSE IF is_dir(f, dst) /\ exists(f, real_dst) THEN [raised |-> TRUE, fs |-> f]
        ELSE IF ~is_dir(f, parent(real_dst)) THEN [raised |-> TRUE, fs |-> f]
        ELSE IF is_dir(f, src) /\ (IsPrefix(src, real_dst) \/ exists(f, real_dst))
             THEN [raised |-> TRUE, fs |-> f]
        ELSE [raised |-> FALSE, fs |-> rename(f, src, real_dst)]

\* Config.BACKUP_HASH_SIZE_LIMIT, 10 * 1024 * 1024 bytes
BACKUP_HASH_SIZE_LIMIT == 10485760

\* source.stat().st_size of a file: the files of the trees below are small,
\* except the one with content "B", whose size is the limit, and the one with
\* content "W", one byte below it
st_size(f, p) ==
    IF f[p].content = "B" THEN BACKUP_HASH_SIZE_LIMIT
    ELSE IF f[p].content = "W" THEN BACKUP_HASH_SIZE_LIMIT - 1 ELSE 1

\* hashlib.sha256 of the content; None (<<>>) when the path cannot be read
None == <<>>
calculate_file_hash(f, p) == IF is_file(f, p) THEN <<"sha256", f[p].content>> ELSE None

(***************************************************************************)
(* Plans (organize.py).  A move is a record that may lack fields; a plan   *)
(* may lack its keys.                                                      *)
(***************************************************************************)
get(d, key, default) == IF key \in DOMAIN d THEN d[key] ELSE default

\* root / move["relative_path"] if present, else root / move["file"]
has_source(move) == "relative_path" \in DOMAIN move \/ "file" \in DOMAIN move
source_of(move) == IF "relative_path" \in DOMAIN move THEN move.relative_path ELSE move.file

RequiredFields == <<"file", "new_path", "reason">>

Issue(i, kind, field, path) == [move |-> i, kind |-> kind, field |-> field, path |-> path]

\* the issues of move i (counted from 0), given the destinations seen before it
move_issues(f, move, i, destinations) ==
    LET missing == SelectSeq(RequiredFields, LAMBDA fld : fld \notin DOMAIN move)
        dest == get(move, "new_path", <<>>)
    IN  [k \in 1..Len(missing) |-> Issue(i, "Missing required field", missing[k], <<>>)]
        \o (IF ~exists(f, source_of(move))
            THEN <<Issue(i, "Source file not found", "", source_of(move))>> ELSE <<>>)
        \o (IF dest \in DOMAIN destinations
            THEN <<Issue(i, "Duplicate destination", "", dest)>> ELSE <<>>)

RECURSIVE validate_from(_, _, _, _, _)
validate_from(f, moves, k, found, destinations) ==
    IF k > Len(moves) THEN [raised |-> FALSE, issues |-> found]
    ELSE IF ~has_source(moves[k]) THEN [raised |-> TRUE, issues |-> found]
    ELSE LET dest == get(moves[k], "new_path", <<>>)
         IN validate_from(f, moves, k + 1,
                found \o move_issues(f, moves[k], k - 1, destinations),
                [d \in DOMAIN destinations \cup {dest} |-> IF d = dest THEN k - 1 ELSE destinations[d]])

\* validate_plan without the early return of lines 27-29
validate_plan_without_key_check(f, p) ==
    validate_from(f, get(p, "moves", <<>>), 1, <<>>, <<>>)

\* validate_plan(plan, root_path): the issues, or raised when a KeyError escapes
validate_plan(f, p) ==
    IF "moves" \notin DOMAIN p
    THEN [raised |-> FALSE, issues |-> <<Issue(0, "Missing 'moves' key in plan", "", <<>>)>>]
    ELSE validate_from(f, p.moves, 1, <<>>, <<>>)

\* file_record with the two paths exchanged
file_record_swapped(f, move) ==
    [original_path |-> move.new_path,
     new_path |-> source_of(move),
     file_hash |-> calculate_file_hash(f, source_of(move))]

\* the record create_backup_manifest appends for one move (size and modified,
\* which no operation reads back, are left out)
file_record(f, move) ==
    [original_path |-> source_of(move),
     new_path |-> move.new_path,
     file_hash |-> calculate_file_hash(f, source_of(move))]

RECURSIVE original_state(_, _, _)
original_state(f, moves, k) ==
    IF k > Len(moves) THEN <<>>
    ELSE (IF exists(f, source_of(moves[k])) THEN <<file_record(f, moves[k])>> ELSE <<>>)
         \o original_state(f, moves, k + 1)

\* create_backup_manifest(root_path, plan) at time t: what it writes to BACKUP_FILE
create_backup_manifest(f, p, t) ==
    [timestamp |-> t,
     root_path |-> "root",
     original_state |-> original_state(f, get(p, "moves", <<>>), 1),
     plan_summary |-> [total_moves |-> Len(get(p, "moves", <<>>)),
                       folders_created |-> get(p, "folders", <<>>)]]

(***************************************************************************)
(* One item of the move loop of perform_file_moves (organize.py 141-185)   *)
(* and one record of the loop of revert_organization (backup.py 60-104).   *)
(***************************************************************************)
Unknown == <<<<"unknown", "">>>>

\* move_item without the dry_run guards of lines 158, 163 and 171
move_item_ignoring_dry_run(f, move, dry, t) ==
    LET source == source_of(move)
        dest == move.new_path
        mk == makedirs(f, parent(dest))
        target == IF exists(mk.fs, dest) THEN new_name(dest, t) ELSE dest
        mv == IF mk.raised THEN mk ELSE shutil_move(mk.fs, source, target)
    IN  IF ~exists(f, source)
        THEN [fs |-> f, ok |-> FALSE, conflict |-> FALSE, target |-> dest,
              failure |-> [file |-> source, error |-> "Source file not found"]]
        ELSE [fs |-> mv.fs, ok |-> ~mv.raised, conflict |-> exists(mk.fs, dest),
              target |-> target, failure |-> [file |-> source, error |-> "exception"]]

\* the loop body for one move at time t: the tree afterwards and how it ended
move_item(f, move, dry, t) ==
    LET source == source_of(move)
        dest == move.new_path
        mk == IF dry THEN [raised |-> FALSE, fs |-> f] ELSE makedirs(f, parent(dest))
        conflict == exists(mk.fs, dest) /\ ~dry
        target == IF conflict THEN new_name(dest, t) ELSE dest
        mv == IF dry \/ mk.raised THEN mk ELSE shutil_move(mk.fs, source, target)
    IN  IF ~exists(f, source)
        THEN [fs |-> f, ok |-> FALSE, conflict |-> FALSE, target |-> dest,
              failure |-> [file |-> source, error |-> "Source file not found"]]
        ELSE IF mv.raised
        THEN [fs |-> mv.fs, ok |-> FALSE, conflict |-> conflict, target |-> target,
              failure |-> [file |-> get(move, "file", Unknown), error |-> "exception"]]
        ELSE [fs |-> mv.fs, ok |-> TRUE, conflict |-> conflict, target |-> target,
              failure |-> [file |-> source, error |-> ""]]

\* verify_file_integrity(filepath, expected_hash)
verify_file_integrity(f, filepath, expected_hash) ==
    IF ~exists(f, filepath) \/ expected_hash = None THEN FALSE
    ELSE calculate_file_hash(f, filepath) = expected_hash

\* revert_entry without lines 67-69: a record whose file is not at new_path
\* is a failure even when the original path exists
revert_entry_absent_fails(f, entry, verify_integrity, t) ==
    LET current_path == entry.new_path
        original_path == entry.original_path
        warn == verify_integrity /\ entry.file_hash # None
                /\ ~verify_file_integrity(f, current_path, entry.file_hash)
        mk == makedirs(f, parent(original_path))
        conflict == ~mk.raised /\ exists(mk.fs, original_path)
        bk == IF conflict
              THEN shutil_move(mk.fs, original_path, backup_name(original_path, t))
              ELSE mk
        mv == IF bk.raised THEN bk ELSE shutil_move(bk.fs, current_path, original_path)
    IN  IF ~exists(f, current_path)
        THEN [fs |-> f, ok |-> FALSE, warn |-> FALSE, conflict |-> FALSE, moved |-> FALSE,
              failure |-> [file |-> entry.new_path,
                           error |-> "File not found in current location"]]
        ELSE IF mv.raised
        THEN [fs |-> mv.fs, ok |-> FALSE, warn |-> warn, conflict |-> conflict, moved |-> FALSE,
              failure |-> [file |-> entry.new_path, error |-> "exception"]]
        ELSE [fs |-> mv.fs, ok |-> TRUE, warn |-> warn, conflict |-> conflict, moved |-> TRUE,
              failure |-> [file |-> entry.new_path, error |-> ""]]

\* the loop body for one manifest record at time t
revert_entry(f, entry, verify_integrity, t) ==
    LET current_path == entry.new_path
        original_path == entry.original_path
        warn == verify_integrity /\ entry.file_hash # None
                /\ ~verify_file_integrity(f, current_path, entry.file_hash)
        mk == makedirs(f, parent(original_path))
        conflict == ~mk.raised /\ exists(mk.fs, original_path)
        bk == IF conflict
              THEN shutil_move(mk.fs, original_path, backup_name(original_path, t))
              ELSE mk
        mv == IF bk.raised THEN bk ELSE shutil_move(bk.fs, current_path, original_path)
    IN  IF ~exists(f, current_path)
        THEN IF exists(f, original_path)
             THEN [fs |-> f, ok |-> TRUE, warn |-> FALSE, conflict |-> FALSE, moved |-> FALSE,
                   failure |-> [file |-> entry.new_path, error |-> ""]]
             ELSE [fs |-> f, ok |-> FALSE, warn |-> FALSE, conflict |-> FALSE, moved |-> FALSE,
                   failure |-> [file |-> entry.new_path,
                                error |-> "File not found in current location"]]
        ELSE IF mv.raised
        THEN [fs |-> mv.fs, ok |-> FALSE, warn |-> warn, conflict |-> conflict, moved |-> FALSE,
              failure |-> [file |-> entry.new_path, error |-> "exception"]]
        ELSE [fs |-> mv.fs, ok |-> TRUE, warn |-> warn, conflict |-> conflict, moved |-> TRUE,
              failure |-> [file |-> entry.new_path, error |-> ""]]

\* by_depth with the shallowest folders first
RECURSIVE by_depth_shallow_first(_, _)
by_depth_shallow_first(folders, d) ==
    IF d = 0 THEN <<>>
    ELSE by_depth_shallow_first(folders, d - 1) \o SelectSeq(folders, LAMBDA p : Len(p) = d)

\* cleanup_empty_folders(root_path, created_folders) of backup.py: deepest first
\* (list.sort is stable: equal depths keep the order of created_folders)
RECURSIVE by_depth(_, _)
by_depth(folders, d) ==
    IF d = 0 THEN <<>>
    ELSE SelectSeq(folders, LAMBDA p : Len(p) = d) \o by_depth(folders, d - 1)

MaxDepth(folders) ==
    IF folders = <<>> THEN 0
    ELSE CHOOSE d \in {Len(folders[k]) : k \in 1..Len(folders)} :
            \A k \in 1..Len(folders) : Len(folders[k]) <= d

\* cleanup_from without the test that the folder is empty
RECURSIVE cleanup_from_any_folder(_, _, _, _)
cleanup_from_any_folder(f, folder_paths, k, removed_count) ==
    IF k > Len(folder_paths) THEN [fs |-> f, removed_count |-> removed_count]
    ELSE LET p == folder_paths[k]
         IN IF p # <<>> /\ is_dir(f, p)
            THEN cleanup_from_any_folder([q \in DOMAIN f \ {p} |-> f[q]], folder_paths, k + 1,
                                         removed_count + 1)
            ELSE cleanup_from_any_folder(f, folder_paths, k + 1, removed_count)

RECURSIVE cleanup_from(_, _, _, _)
cleanup_from(f, folder_paths, k, removed_count) ==
    IF k > Len(folder_paths) THEN [fs |-> f, removed_count |-> removed_count]
    ELSE LET p == folder_paths[k]
         IN IF /\ p # <<>> /\ is_dir(f, p) /\ ~iterdir_raises(f, p) /\ iterdir(f, p) = {}
               /\ ~rmdir_raises(f, p)
            THEN cleanup_from([q \in DOMAIN f \ {p} |-> f[q]], folder_paths, k + 1,
                              removed_count + 1)
            ELSE cleanup_from(f, folder_paths, k + 1, removed_count)

cleanup_empty_folders(f, created_folders) ==
    cleanup_from(f, by_depth(created_folders, MaxDepth(created_folders)), 1, 0)

(***************************************************************************)
(* The universe the operations draw their inputs from.                     *)
(***************************************************************************)
a_txt == <<"a", ".txt">>
b_txt == <<"b", ".txt">>
c_txt == <<"c", ".txt">>
Work == <<"Work", "">>
Sub == <<"Sub", "">>

(***************************************************************************)
(* cleanup_empty_folders(root_path, dry_run) of organize.py (214-232).      *)
(***************************************************************************)
Docs == <<"Docs", "">>

\* the order of str on the names that occur: upper case before lower case
NameOrder == <<Docs, Sub, Work, a_txt, b_txt, c_txt>>
rank(n) == CHOOSE i \in 1..Len(NameOrder) : NameOrder[i] = n

\* Path.__lt__: the parts are compared as lists, a prefix is the smaller one
path_less(p, q) ==
    \E i \in 1..Len(q) :
        /\ \A j \in 1..(i - 1) : j <= Len(p) /\ p[j] = q[j]
        /\ (i > Len(p) \/ rank(p[i]) < rank(q[i]))

\* sorted(..., reverse=True)
RECURSIVE sorted_reverse(_)
sorted_reverse(S) ==
    IF S = {} THEN <<>>
    ELSE LET m == CHOOSE x \in S : \A y \in S \ {x} : path_less(y, x)
         IN  <<m>> \o sorted_reverse(S \ {m})

\* root.rglob("*/"): the directories below the root; a Python older than 3.11
\* yields the files as well, and folder.iterdir() then raises for them, which
\* the bare except skips: the entries that are not directories are kept here
\* and skipped by scan_from
rglob(f) == DOMAIN f

\* lines 219-227 from the k-th folder on
RECURSIVE scan_from(_, _, _, _, _)
scan_from(f, folders, k, empty_folders, dry) ==
    IF k > Len(folders) THEN [fs |-> f, empty_folders |-> empty_folders]
    ELSE LET folder == folders[k]
         IN IF is_dir(f, folder) /\ ~iterdir_raises(f, folder) /\ iterdir(f, folder) = {}
            THEN scan_from(IF dry \/ rmdir_raises(f, folder) THEN f
                           ELSE [q \in DOMAIN f \ {folder} |-> f[q]],
                           folders, k + 1, Append(empty_folders, folder), dry)
            ELSE scan_from(f, folders, k + 1, empty_folders, dry)

Move(src, dst) ==
    [file |-> <<name(src)>>, relative_path |-> src, new_path |-> dst, reason |-> "doc"]

MoveUniverse ==
    { Move(<<a_txt>>, <<Work, a_txt>>),
      Move(<<b_txt>>, <<Work, a_txt>>),
      Move(<<a_txt>>, <<b_txt>>),
      [file |-> <<b_txt>>, new_path |-> <<b_txt>>, reason |-> "keep"],
      Move(<<a_txt>>, <<Work, Sub, a_txt>>),
      Move(<<c_txt>>, <<Work, c_txt>>),
      [file |-> <<a_txt>>, relative_path |-> <<a_txt>>, new_path |-> <<Work, a_txt>>],
      [new_path |-> <<Work, a_txt>>, reason |-> "doc"] }

FolderUniverse == { <<<<Work>>>>, <<<<Work, Sub>>, <<Work>>>> }

MoveLists == UNION {[1..n -> MoveUniverse] : n \in 0..MaxMoves}

Plans == {[folders |-> fl, moves |-> ml] : fl \in FolderUniverse, ml \in MoveLists}

InitTrees ==
    LET base == (<<a_txt>> :> File("A")) @@ (<<b_txt>> :> File("B"))
    IN  { base,
          base @@ (<<Work>> :> Dir),
          base @@ (<<Work>> :> Dir) @@ (<<Work, a_txt>> :> File("W")) }

\* the plans of the sessions that execute more than once
FewPlans ==
    {[folders |-> fl, moves |-> ml] :
        fl \in {<<>>, <<<<Work, Sub>>, <<Work>>>>},
        ml \in UNION {[1..n -> {Move(<<a_txt>>, <<Work, a_txt>>),
                                Move(<<b_txt>>, <<Work, a_txt>>),
                                Move(<<a_txt>>, <<Work, Sub, a_txt>>)}] : n \in 0..MaxMoves}}

\* the plans of the sessions that execute and revert more than once
SessionPlans ==
    {[folders |-> <<<<Work>>>>, moves |-> <<m>>] :
        m \in {Move(<<a_txt>>, <<Work, a_txt>>), Move(<<b_txt>>, <<Work, a_txt>>)}}

\* the plans that are only validated: up to MaxValidated moves that share one
\* destination or lack a field or a source, and plans without a 'moves' key
MaxValidated == 3

ValidatedPlans ==
    {[folders |-> <<<<Work>>>>, moves |-> ml] :
        ml \in UNION {[1..n -> {Move(<<a_txt>>, <<Work, a_txt>>),
                                Move(<<b_txt>>, <<Work, a_txt>>),
                                Move(<<c_txt>>, <<Work, a_txt>>),
                                [file |-> <<a_txt>>, relative_path |-> <<a_txt>>,
                                 new_path |-> <<Work, Sub, a_txt>>],
                                [new_path |-> <<Work, a_txt>>, reason |-> "doc"]}] :
                       n \in 0..MaxValidated}}
    \cup {[folders |-> <<<<Work>>>>], [folders |-> <<>>, files |-> <<<<a_txt>>>>]}

\* path components that lead out of the root: root / "../x" is a sibling of
\* the root, root / "/x" is the absolute path /x (pathlib drops the root)
DotDot == <<"..", "">>
Slash == <<"/", "">>
Outside(p) == p # <<>> /\ p[1] \in {DotDot, Slash}

\* the root with its parent directory and the top of the file system around it
EscapeTrees ==
    LET base == (<<a_txt>> :> File("A")) @@ (<<b_txt>> :> File("B"))
                @@ (<<DotDot>> :> Dir) @@ (<<Slash>> :> Dir)
    IN  { base,
          base @@ (<<DotDot, a_txt>> :> File("O")),
          base @@ (<<DotDot, c_txt>> :> File("C")) }

\* plans whose paths are relative, contain '..' or are absolute
EscapingPlans ==
    {[folders |-> fl, moves |-> ml] :
        fl \in {<<>>, <<<<Work>>>>, <<<<DotDot, Work>>>>, <<<<Slash, Work>>>>},
        ml \in UNION {[1..n -> {Move(<<a_txt>>, <<Work, a_txt>>),
                                Move(<<a_txt>>, <<DotDot, a_txt>>),
                                Move(<<b_txt>>, <<Slash, Work, b_txt>>),
                                Move(<<DotDot, c_txt>>, <<c_txt>>)}] : n \in 0..MaxMoves}}

Offered(which) == IF which = "any" THEN Plans
                  ELSE IF which = "few" THEN FewPlans
                  ELSE IF which = "escaping" THEN EscapingPlans
                  ELSE IF which = "validated" THEN ValidatedPlans ELSE SessionPlans

NoPlan == [folders |-> <<>>, moves |-> <<>>]

\* no client has asked for /api/events/{task_id}
NoStream == [task_id |-> 0, at |-> "none", last_update |-> -1, connected |-> FALSE,
             events |-> <<>>, left_at |-> ""]
Backup == [at |-> "backup", second |-> 0]
Archived(t) == [at |-> "archive", second |-> t]
ManifestFiles == {Backup} \cup {Archived(t) : t \in 0..MaxClock}

disk == <<fs, backupFile, resultsFile, archive>>
exec_locals == <<plan, dry_run, issues, folders_created, successful_moves, failed_moves>>
session == <<clock, offered, tasks, stream>>
revert_locals == <<manifest_file, manifest, response, successful_reverts, failed_reverts,
                   integrity_warnings, cleanup_count>>

Init ==
    /\ fs \in InitTrees
    /\ backupFile = <<>>
    /\ resultsFile = <<>>
    /\ archive = [t \in 0..MaxClock |-> <<>>]
    /\ clock = 0
    /\ offered = "any"
    /\ budget = [organize |-> 1, revert |-> MaxReverts]
    /\ pc = "idle"
    /\ mode = ""
    /\ task = "none"
    /\ plan = NoPlan
    /\ dry_run = FALSE
    /\ issues = <<>>
    /\ idx = 0
    /\ folders_created = {}
    /\ successful_moves = 0
    /\ failed_moves = <<>>
    /\ ret = ""
    /\ manifest_file = Backup
    /\ manifest = <<>>
    /\ response = ""
    /\ successful_reverts = 0
    /\ failed_reverts = <<>>
    /\ integrity_warnings = <<>>
    /\ cleanup_count = 0
    /\ pre = <<>>
    /\ last = <<>>
    /\ tasks = <<>>
    /\ stream = NoStream

\* the locals of a call that is starting
Fresh ==
    /\ issues' = <<>>
    /\ idx' = 0
    /\ folders_created' = {}
    /\ successful_moves' = 0
    /\ failed_moves' = <<>>
    /\ response' = ""
    /\ successful_reverts' = 0
    /\ failed_reverts' = <<>>
    /\ integrity_warnings' = <<>>
    /\ cleanup_count' = 0
    /\ pre' = fs

(***************************************************************************)
(* perform_file_moves (organize.py 108-212), step by step.                 *)
(***************************************************************************)
folders_of(p) == get(p, "folders", <<>>)
moves_of(p) == get(p, "moves", <<>>)

\* where the execution stands after the manifest step and after each loop
AtFolders(p) == IF folders_of(p) # <<>> THEN "folders"
                ELSE IF moves_of(p) # <<>> THEN "moves" ELSE "results"
AtMoves(p) == IF moves_of(p) # <<>> THEN "moves" ELSE "results"

\* perform_file_moves returns value to its caller
Returns(value) ==
    /\ ret' = value
    /\ pc' = IF mode = "api" THEN "api_complete" ELSE "done"
    /\ task' = task

\* an exception leaves perform_file_moves: the CLI ends, the API task fails
Raises(exception) ==
    /\ ret' = exception
    /\ pc' = "done"
    /\ task' = IF mode = "api" THEN "failed" ELSE task

\* organize.py __main__, main.py: perform_file_moves(root, plan, dry_run)
Organize(p, dry) ==
    /\ pc = "idle"
    /\ budget.organize > 0
    /\ budget' = [budget EXCEPT !.organize = @ - 1]
    /\ pc' = "validate"
    /\ mode' = "cli"
    /\ plan' = p
    /\ dry_run' = dry
    /\ Fresh
    /\ UNCHANGED <<ret, manifest_file, manifest>>
    /\ UNCHANGED <<disk, session, task, last>>

\* Validate without the early return of lines 114-118
ValidateWithoutGate ==
    /\ pc = "validate"
    /\ LET v == validate_plan(fs, plan)
       IN  /\ issues' = v.issues
           /\ IF v.raised THEN Raises("KeyError")
              ELSE pc' = "manifest" /\ UNCHANGED <<ret, task>>
    /\ UNCHANGED <<disk, session, budget, mode, plan, dry_run, folders_created,
                   successful_moves, failed_moves, idx, revert_locals, pre, last>>

\* lines 112-118
Validate ==
    /\ pc = "validate"
    /\ LET v == validate_plan(fs, plan)
       IN  /\ issues' = v.issues
           /\ IF v.raised THEN Raises("KeyError")
              ELSE IF v.issues # <<>> THEN Returns("False")
              ELSE pc' = "manifest" /\ UNCHANGED <<ret, task>>
    /\ UNCHANGED <<disk, session, budget, mode, plan, dry_run, folders_created,
                   successful_moves, failed_moves, idx, revert_locals, pre, last>>

\* WriteManifest without the call of line 123
WriteNoManifest ==
    /\ pc = "manifest"
    /\ pc' = AtFolders(plan)
    /\ idx' = 1
    /\ UNCHANGED <<disk, session, budget, mode, task, exec_locals, ret, revert_locals, pre, last>>

\* lines 120-123
WriteManifest ==
    /\ pc = "manifest"
    /\ backupFile' = IF dry_run THEN backupFile
                     ELSE <<create_backup_manifest(fs, plan, clock)>>
    /\ pc' = AtFolders(plan)
    /\ idx' = 1
    /\ UNCHANGED <<fs, resultsFile, archive, session, budget, mode, task, exec_locals, ret,
                   revert_locals, pre, last>>

\* lines 127-133, one folder
CreateFolder ==
    /\ pc = "folders"
    /\ LET folder == folders_of(plan)[idx]
           absent == ~exists(fs, folder)
           mk == IF absent /\ ~dry_run THEN makedirs(fs, folder)
                 ELSE [raised |-> FALSE, fs |-> fs]
       IN  /\ fs' = mk.fs
           /\ IF mk.raised
              THEN Raises("OSError") /\ UNCHANGED <<idx, folders_created>>
              ELSE /\ folders_created' =
                        IF absent THEN folders_created \cup {folder} ELSE folders_created
                   /\ IF idx < Len(folders_of(plan))
                      THEN idx' = idx + 1 /\ pc' = pc
                      ELSE idx' = 1 /\ pc' = AtMoves(plan)
                   /\ UNCHANGED <<ret, task>>
    /\ UNCHANGED <<backupFile, resultsFile, archive, session, budget, mode, plan, dry_run,
                   issues, successful_moves, failed_moves, revert_locals, pre, last>>

\* MoveFile with a loop body that keeps no record of a failing item
MoveFileSilent ==
    /\ pc = "moves"
    /\ LET r == move_item(fs, plan.moves[idx], dry_run, clock)
       IN  /\ fs' = r.fs
           /\ successful_moves' = IF r.ok THEN successful_moves + 1 ELSE successful_moves
           /\ failed_moves' = failed_moves
    /\ IF idx < Len(plan.moves)
       THEN idx' = idx + 1 /\ pc' = pc
       ELSE idx' = 0 /\ pc' = "results"
    /\ UNCHANGED <<backupFile, resultsFile, archive, session, budget, mode, task, plan, dry_run,
                   issues, folders_created, ret, revert_locals, pre, last>>

\* lines 141-185, one move
MoveFile ==
    /\ pc = "moves"
    /\ LET r == move_item(fs, plan.moves[idx], dry_run, clock)
       IN  /\ fs' = r.fs
           /\ successful_moves' = IF r.ok THEN successful_moves + 1 ELSE successful_moves
           /\ failed_moves' = IF r.ok THEN failed_moves ELSE Append(failed_moves, r.failure)
    /\ IF idx < Len(plan.moves)
       THEN idx' = idx + 1 /\ pc' = pc
       ELSE idx' = 0 /\ pc' = "results"
    /\ UNCHANGED <<backupFile, resultsFile, archive, session, budget, mode, task, plan, dry_run,
                   issues, folders_created, ret, revert_locals, pre, last>>

\* SaveResults returning success only when no move has failed
SaveResultsGatedByFailures ==
    /\ pc = "results"
    /\ resultsFile' = IF dry_run THEN resultsFile
                      ELSE <<[timestamp |-> clock,
                              successful_moves |-> successful_moves,
                              failed_moves |-> failed_moves,
                              folders_created |-> folders_created]>>
    /\ Returns(IF failed_moves = <<>> THEN "True" ELSE "False")
    /\ UNCHANGED <<fs, backupFile, archive, session, budget, mode, exec_locals, idx,
                   revert_locals, pre, last>>

\* lines 200-212
SaveResults ==
    /\ pc = "results"
    /\ resultsFile' = IF dry_run THEN resultsFile
                      ELSE <<[timestamp |-> clock,
                              successful_moves |-> successful_moves,
                              failed_moves |-> failed_moves,
                              folders_created |-> folders_created]>>
    /\ Returns(IF successful_moves > 0 THEN "True" ELSE "False")
    /\ UNCHANGED <<fs, backupFile, archive, session, budget, mode, exec_locals, idx,
                   revert_locals, pre, last>>

(***************************************************************************)
(* The organize task of the API (backend/api/main.py 202-251, 380-407).    *)
(***************************************************************************)
\* organize_files: create_task("organize") and schedule organize_files_async
ApiOrganize(p, dry) ==
    /\ pc = "idle"
    /\ budget.organize > 0
    /\ budget' = [budget EXCEPT !.organize = @ - 1]
    /\ pc' = "api_pending"
    /\ mode' = "api"
    /\ task' = "pending"
    /\ plan' = p
    /\ dry_run' = dry
    /\ Fresh
    /\ UNCHANGED <<ret, manifest_file, manifest>>
    /\ UNCHANGED <<disk, session, last>>

\* lines 205-213
ApiRunning ==
    /\ pc = "api_pending"
    /\ task' = "running"
    /\ pc' = "api_validate"
    /\ UNCHANGED <<disk, session, budget, mode, exec_locals, idx, ret, revert_locals, pre, last>>

\* lines 215-220, and 245-251 for the exception
ApiValidate ==
    /\ pc = "api_validate"
    /\ LET v == validate_plan(fs, plan)
       IN  /\ issues' = v.issues
           /\ IF v.raised \/ v.issues # <<>>
              THEN /\ task' = "failed"
                   /\ ret' = IF v.raised THEN "KeyError" ELSE "ValueError"
                   /\ pc' = "done"
              ELSE pc' = "api_manifest" /\ UNCHANGED <<ret, task>>
    /\ UNCHANGED <<disk, session, budget, mode, plan, dry_run, folders_created,
                   successful_moves, failed_moves, idx, revert_locals, pre, last>>

\* lines 222-233: create_backup_manifest, then perform_file_moves is called
ApiManifest ==
    /\ pc = "api_manifest"
    /\ backupFile' = IF dry_run THEN backupFile
                     ELSE <<create_backup_manifest(fs, plan, clock)>>
    /\ pc' = "validate"
    /\ UNCHANGED <<fs, resultsFile, archive, session, budget, mode, task, exec_locals, idx, ret,
                   revert_locals, pre, last>>

\* lines 235-243
ApiComplete ==
    /\ pc = "api_complete"
    /\ task' = "completed"
    /\ pc' = "done"
    /\ UNCHANGED <<disk, session, budget, mode, exec_locals, idx, ret, revert_locals, pre, last>>

(***************************************************************************)
(* revert_organization (backup.py 39-134), step by step.                   *)
(***************************************************************************)
read_manifest(bf, ar, mf) == IF mf.at = "backup" THEN bf ELSE ar[mf.second]

\* Revert with the confirmation of lines 48-52 asked before the manifest is loaded
RevertAskingFirst(mf) ==
    /\ pc = "idle"
    /\ budget.revert > 0
    /\ budget' = [budget EXCEPT !.revert = @ - 1]
    /\ mode' = "cli"
    /\ plan' = NoPlan
    /\ dry_run' = FALSE
    /\ issues' = <<>> /\ idx' = 0 /\ folders_created' = {} /\ successful_moves' = 0
    /\ failed_moves' = <<>> /\ successful_reverts' = 0 /\ failed_reverts' = <<>>
    /\ integrity_warnings' = <<>> /\ cleanup_count' = 0 /\ pre' = fs
    /\ LET loaded == read_manifest(backupFile, archive, mf)
       IN  IF loaded = <<>>
           THEN /\ pc' = "done"
                /\ ret' = "FileNotFoundError"
                /\ manifest' = manifest
                /\ response' = "yes"
           ELSE /\ pc' = "confirm"
                /\ ret' = ret
                /\ manifest' = loaded
                /\ response' = ""
    /\ manifest_file' = mf
    /\ UNCHANGED <<disk, session, task, last>>

\* lines 41-46: load_backup_manifest(manifest_file) raises when there is no file
Revert(mf) ==
    /\ pc = "idle"
    /\ budget.revert > 0
    /\ budget' = [budget EXCEPT !.revert = @ - 1]
    /\ mode' = "cli"
    /\ plan' = NoPlan
    /\ dry_run' = FALSE
    /\ Fresh
    /\ LET loaded == read_manifest(backupFile, archive, mf)
       IN  IF loaded = <<>>
           THEN /\ pc' = "done"
                /\ ret' = "FileNotFoundError"
                /\ manifest' = manifest
           ELSE /\ pc' = "confirm"
                /\ ret' = ret
                /\ manifest' = loaded
    /\ manifest_file' = mf
    /\ UNCHANGED <<disk, session, task, last>>

AtRecords(m) == IF m.original_state # <<>> THEN "reverting" ELSE "cleanup"

\* what the user may type at the prompt of line 48
Answers == {"yes", "YES", "no"}

\* str.lower() on the answers above
lower(s) == IF s = "YES" THEN "yes" ELSE s

\* the confirmation without line 49: the revert goes on whatever the answer
ConfirmIgnoringAnswer(answer) ==
    /\ pc = "confirm"
    /\ response' = answer
    /\ pc' = (IF manifest[1].original_state # <<>> THEN "reverting" ELSE "cleanup")
    /\ idx' = 1 /\ ret' = ret
    /\ UNCHANGED <<disk, session, budget, mode, task, exec_locals, manifest_file, manifest,
                   successful_reverts, failed_reverts, integrity_warnings, cleanup_count,
                   pre, last>>

\* lines 48-52: input(...), only an answer whose lower case is 'yes' goes on
Confirm(answer) ==
    /\ pc = "confirm"
    /\ response' = answer
    /\ IF lower(answer) = "yes"
       THEN pc' = AtRecords(manifest[1]) /\ idx' = 1 /\ ret' = ret
       ELSE pc' = "done" /\ idx' = idx /\ ret' = "False"
    /\ UNCHANGED <<disk, session, budget, mode, task, exec_locals, manifest_file, manifest,
                   successful_reverts, failed_reverts, integrity_warnings, cleanup_count,
                   pre, last>>

\* lines 60-104, one record
RevertFile ==
    /\ pc = "reverting"
    /\ LET r == revert_entry(fs, manifest[1].original_state[idx], TRUE, clock)
       IN  /\ fs' = r.fs
           /\ successful_reverts' = IF r.ok THEN successful_reverts + 1 ELSE successful_reverts
           /\ failed_reverts' = IF r.ok THEN failed_reverts ELSE Append(failed_reverts, r.failure)
           /\ integrity_warnings' =
                  IF r.warn THEN Append(integrity_warnings, manifest[1].original_state[idx].new_path)
                  ELSE integrity_warnings
    /\ IF idx < Len(manifest[1].original_state)
       THEN idx' = idx + 1 /\ pc' = pc
       ELSE idx' = 0 /\ pc' = "cleanup"
    /\ UNCHANGED <<backupFile, resultsFile, archive, session, budget, mode, task, exec_locals,
                   ret, manifest_file, manifest, response, cleanup_count, pre, last>>

\* lines 106-108
Cleanup ==
    /\ pc = "cleanup"
    /\ LET c == cleanup_empty_folders(fs, manifest[1].plan_summary.folders_created)
       IN  fs' = c.fs /\ cleanup_count' = c.removed_count
    /\ pc' = "archive"
    /\ UNCHANGED <<backupFile, resultsFile, archive, session, budget, mode, task, exec_locals,
                   idx, ret, manifest_file, manifest, response, successful_reverts,
                   failed_reverts, integrity_warnings, pre, last>>

\* archive_manifest(manifest_file) at time t (backup.py 155-164): shutil.move of
\* the manifest file to backup_manifest_<timestamp>.json
archive_manifest(bf, ar, mf, t) ==
    IF mf = Archived(t) THEN [backupFile |-> bf, archive |-> ar]
    ELSE [backupFile |-> IF mf.at = "backup" THEN <<>> ELSE bf,
          archive |-> [s \in DOMAIN ar |->
                         IF s = t THEN read_manifest(bf, ar, mf)
                         ELSE IF mf = Archived(s) THEN <<>> ELSE ar[s]]]

\* lines 131-134
ArchiveManifest ==
    /\ pc = "archive"
    /\ LET d == archive_manifest(backupFile, archive, manifest_file, clock)
       IN  backupFile' = d.backupFile /\ archive' = d.archive
    /\ ret' = IF successful_reverts > 0 THEN "True" ELSE "False"
    /\ pc' = "done"
    /\ UNCHANGED <<fs, resultsFile, session, budget, mode, task, exec_locals, idx,
                   revert_locals, pre, last>>

(***************************************************************************)
(* The environment: the process ends or is killed, time passes.            *)
(***************************************************************************)
\* the manifest of the running execution has been written
ManifestWritten ==
    /\ ~dry_run
    /\ \/ pc \in {"folders", "moves", "results", "api_complete"}
       \/ mode = "api" /\ pc \in {"validate", "manifest"}
       \/ pc = "done" /\ manifest = <<>> /\ issues = <<>> /\ ret \in {"True", "False"}

Running == pc \in {"validate", "manifest", "folders", "moves", "results", "api_pending",
                   "api_validate", "api_manifest", "api_complete"}
Reverting == pc \in {"confirm", "reverting", "cleanup", "archive"}

\* what is remembered of an operation when it ends at position `at`
Summary(at) ==
    LET started == at \in {"folders", "moves", "results", "api_complete"}
                   \/ (at = "done" /\ ret \in {"True", "False"} /\ issues = <<>>)
    IN  [op |-> IF manifest # <<>> \/ ret = "FileNotFoundError" THEN "revert" ELSE "organize",
         ended |-> IF at = "done" THEN "returned" ELSE "killed",
         dry_run |-> dry_run,
         plan |-> IF started THEN plan ELSE NoPlan,
         pre |-> IF started THEN pre ELSE <<>>,
         changed |-> fs # pre,
         manifest_written |-> ManifestWritten,
         manifest |-> manifest,
         confirmed |-> lower(response) = "yes",
         ret |-> ret,
         successful |-> successful_moves + successful_reverts,
         failed |-> failed_moves \o failed_reverts,
         folders_created |-> folders_created]

Forget ==
    /\ pc' = "idle"
    /\ mode' = ""
    /\ task' = "none"
    /\ plan' = NoPlan
    /\ dry_run' = FALSE
    /\ issues' = <<>>
    /\ idx' = 0
    /\ folders_created' = {}
    /\ successful_moves' = 0
    /\ failed_moves' = <<>>
    /\ ret' = ""
    /\ manifest_file' = Backup
    /\ manifest' = <<>>
    /\ response' = ""
    /\ successful_reverts' = 0
    /\ failed_reverts' = <<>>
    /\ integrity_warnings' = <<>>
    /\ cleanup_count' = 0
    /\ pre' = <<>>

\* the operation has returned and its process (or request) ends
Exit ==
    /\ pc = "done"
    /\ last' = <<Summary("done")>>
    /\ Forget
    /\ UNCHANGED <<disk, session, budget>>

\* the process is killed in the middle of an operation
Kill ==
    /\ Running \/ Reverting
    /\ last' = <<Summary(pc)>>
    /\ Forget
    /\ UNCHANGED <<disk, session, budget>>

\* Time is read (datetime.now()) by the steps at these positions only, so it is
\* enough to let it advance right before one of them.
ReadsClock == {"manifest", "api_manifest", "moves", "results", "reverting", "archive"}

Tick ==
    /\ clock < MaxClock
    /\ pc \in ReadsClock
    /\ clock' = clock + 1
    /\ UNCHANGED <<disk, offered, budget, pc, mode, task, exec_locals, idx, ret, revert_locals,
                   pre, last, tasks, stream>>

Next ==
    \/ \E p \in Offered(offered), dry \in BOOLEAN : Organize(p, dry)
    \/ Validate
    \/ WriteManifest
    \/ CreateFolder
    \/ MoveFile
    \/ SaveResults
    \/ \E p \in Offered(offered), dry \in BOOLEAN : ApiOrganize(p, dry)
    \/ ApiRunning
    \/ ApiValidate
    \/ ApiManifest
    \/ ApiComplete
    \/ \E mf \in ManifestFiles : Revert(mf)
    \/ \E answer \in Answers : Confirm(answer)
    \/ RevertFile
    \/ Cleanup
    \/ ArchiveManifest
    \/ Exit
    \/ Kill
    \/ Tick

\* one execution of any plan, reverted up to MaxReverts times
Spec == Init /\ [][Next]_vars

\* a session that executes up to MaxOrganizes plans in a row (a dry run and
\* then the real one, or two plans in quick succession), never killed
MaxOrganizes == 2

InitRepeat ==
    /\ fs \in InitTrees
    /\ offered = "few"
    /\ budget = [organize |-> MaxOrganizes, revert |-> 0]
    /\ backupFile = <<>> /\ resultsFile = <<>> /\ archive = [t \in 0..MaxClock |-> <<>>]
    /\ clock = 0 /\ pc = "idle" /\ mode = "" /\ task = "none" /\ plan = NoPlan
    /\ dry_run = FALSE /\ issues = <<>> /\ idx = 0 /\ folders_created = {}
    /\ successful_moves = 0 /\ failed_moves = <<>> /\ ret = ""
    /\ manifest_file = Backup /\ manifest = <<>> /\ response = ""
    /\ successful_reverts = 0 /\ failed_reverts = <<>> /\ integrity_warnings = <<>>
    /\ cleanup_count = 0 /\ pre = <<>> /\ last = <<>>
    /\ tasks = <<>> /\ stream = NoStream

NextRepeat ==
    \/ \E p \in Offered(offered), dry \in BOOLEAN : Organize(p, dry)
    \/ Validate
    \/ WriteManifest
    \/ CreateFolder
    \/ MoveFile
    \/ SaveResults
    \/ \E p \in Offered(offered), dry \in BOOLEAN : ApiOrganize(p, dry)
    \/ ApiRunning
    \/ ApiValidate
    \/ ApiManifest
    \/ ApiComplete
    \/ Exit
    \/ Tick

SpecRepeat == InitRepeat /\ [][NextRepeat]_vars

\* a session of up to MaxSessions rounds of execution and revert of the active
\* manifest, never killed
MaxSessions == 2

InitSessions ==
    /\ fs \in InitTrees
    /\ offered = "sessions"
    /\ budget = [organize |-> MaxSessions, revert |-> MaxSessions]
    /\ backupFile = <<>> /\ resultsFile = <<>> /\ archive = [t \in 0..MaxClock |-> <<>>]
    /\ clock = 0 /\ pc = "idle" /\ mode = "" /\ task = "none" /\ plan = NoPlan
    /\ dry_run = FALSE /\ issues = <<>> /\ idx = 0 /\ folders_created = {}
    /\ successful_moves = 0 /\ failed_moves = <<>> /\ ret = ""
    /\ manifest_file = Backup /\ manifest = <<>> /\ response = ""
    /\ successful_reverts = 0 /\ failed_reverts = <<>> /\ integrity_warnings = <<>>
    /\ cleanup_count = 0 /\ pre = <<>> /\ last = <<>>
    /\ tasks = <<>> /\ stream = NoStream

NextSessions ==
    \/ \E p \in Offered(offered) : Organize(p, FALSE)
    \/ Validate
    \/ WriteManifest
    \/ CreateFolder
    \/ MoveFile
    \/ SaveResults
    \/ Revert(Backup)
    \/ Confirm("yes")
    \/ RevertFile
    \/ Cleanup
    \/ ArchiveManifest
    \/ Exit
    \/ Tick

SpecSessions == InitSessions /\ [][NextSessions]_vars

\* perform_file_moves called on any of the plans above: it validates and, when
\* the plan has an issue, returns
InitValidate ==
    /\ fs \in InitTrees
    /\ offered = "validated"
    /\ budget = [organize |-> 1, revert |-> 0]
    /\ backupFile = <<>> /\ resultsFile = <<>> /\ archive = [t \in 0..MaxClock |-> <<>>]
    /\ clock = 0 /\ pc = "idle" /\ mode = "" /\ task = "none" /\ plan = NoPlan
    /\ dry_run = FALSE /\ issues = <<>> /\ idx = 0 /\ folders_created = {}
    /\ successful_moves = 0 /\ failed_moves = <<>> /\ ret = ""
    /\ manifest_file = Backup /\ manifest = <<>> /\ response = ""
    /\ successful_reverts = 0 /\ failed_reverts = <<>> /\ integrity_warnings = <<>>
    /\ cleanup_count = 0 /\ pre = <<>> /\ last = <<>>
    /\ tasks = <<>> /\ stream = NoStream

NextValidate ==
    \/ \E p \in Offered(offered), dry \in BOOLEAN : Organize(p, dry)
    \/ Validate

SpecValidate == InitValidate /\ [][NextValidate]_vars

(***************************************************************************)
(* The two cleaners called on a tree, once and once more (main.py 139,     *)
(* 223; backup.py 108).                                                    *)
(***************************************************************************)
MaxCandidates == 2

CleanupDirs == {<<Work>>, <<Work, Sub>>, <<Work, Sub, Docs>>, <<Docs>>}
CleanupFiles == {<<a_txt>>, <<Work, a_txt>>, <<Work, Sub, a_txt>>, <<Docs, b_txt>>}

\* the directories of a tree that may be Locked or Unreadable
DirKinds(p) ==
    IF p = <<Work, Sub>> THEN {Dir, Locked, Unreadable}
    ELSE IF p = <<Docs>> THEN {Dir, Locked} ELSE {Dir}

CleanupTrees ==
    UNION {{d @@ [p \in F |-> File("A")] :
              d \in {g \in [D -> {Dir, Locked, Unreadable}] : \A p \in D : g[p] \in DirKinds(p)},
              F \in {Y \in SUBSET CleanupFiles :
                        \A q \in Y : Len(q) > 1 => parent(q) \in D}} :
           D \in {X \in SUBSET CleanupDirs : \A p \in X : Len(p) > 1 => parent(p) \in X}}

CreatedFolders ==
    UNION {[1..n -> CleanupDirs \cup {<<Work, a_txt>>}] : n \in 0..MaxCandidates}

\* the folders the pass that is going on looks at, in its order
PassList ==
    IF mode = "organize" THEN sorted_reverse(rglob(pre))
    ELSE by_depth(plan.folders, MaxDepth(plan.folders))

InitCleanup ==
    /\ fs \in CleanupTrees
    /\ offered = "cleanup"
    /\ budget = [organize |-> 0, revert |-> 0]
    /\ backupFile = <<>> /\ resultsFile = <<>> /\ archive = [t \in 0..MaxClock |-> <<>>]
    /\ clock = 0 /\ pc = "idle" /\ mode = "" /\ task = "none" /\ plan = NoPlan
    /\ dry_run = FALSE /\ issues = <<>> /\ idx = 0 /\ folders_created = {}
    /\ successful_moves = 0 /\ failed_moves = <<>> /\ ret = ""
    /\ manifest_file = Backup /\ manifest = <<>> /\ response = ""
    /\ successful_reverts = 0 /\ failed_reverts = <<>> /\ integrity_warnings = <<>>
    /\ cleanup_count = 0 /\ pre = <<>> /\ last = <<>>
    /\ tasks = <<>> /\ stream = NoStream

\* the call: the list of folders is built from the tree as it is now
BeginPass(impl, created_folders, dry) ==
    /\ mode' = impl
    /\ plan' = [folders |-> created_folders, moves |-> <<>>]
    /\ dry_run' = dry
    /\ pre' = fs
    /\ idx' = 1
    /\ cleanup_count' = 0
    /\ pc' = IF (impl = "organize" /\ rglob(fs) = {}) \/ (impl = "backup" /\ created_folders = <<>>)
             THEN "cleaned" ELSE "cleanup_pass"
    /\ UNCHANGED <<disk, session, budget, task, issues, folders_created, successful_moves,
                   failed_moves, ret, manifest_file, manifest, response, successful_reverts,
                   failed_reverts, integrity_warnings>>

\* organize.py: cleanup_empty_folders(root_path, dry_run)
CleanupScan(dry) ==
    pc = "idle" /\ BeginPass("organize", <<>>, dry) /\ last' = last

\* backup.py: cleanup_empty_folders(root_path, created_folders)
CleanupCreated(created_folders) ==
    pc = "idle" /\ BeginPass("backup", created_folders, FALSE) /\ last' = last

\* one folder of the loop (organize.py 219-227, backup.py 143-151)
CleanupFolder ==
    /\ pc = "cleanup_pass"
    /\ LET folder == PassList[idx]
           r == IF mode = "organize"
                THEN LET sc == scan_from(fs, <<folder>>, 1, <<>>, dry_run)
                     IN  [fs |-> sc.fs, removed_count |-> Len(sc.empty_folders)]
                ELSE cleanup_from(fs, <<folder>>, 1, 0)
       IN  /\ fs' = r.fs
           /\ cleanup_count' = cleanup_count + r.removed_count
    /\ IF idx < Len(PassList)
       THEN idx' = idx + 1 /\ pc' = pc
       ELSE idx' = 0 /\ pc' = "cleaned"
    /\ UNCHANGED <<backupFile, resultsFile, archive, session, budget, mode, task, exec_locals,
                   ret, manifest_file, manifest, response, successful_reverts, failed_reverts,
                   integrity_warnings, pre, last>>

\* the same call once more, on the tree the first call has left
CleanupAgain ==
    /\ pc = "cleaned" /\ last = <<>>
    /\ last' = <<[op |-> "cleanup", pre |-> pre, removed_count |-> cleanup_count]>>
    /\ BeginPass(mode, plan.folders, dry_run)

NextCleanup ==
    \/ \E dry \in BOOLEAN : CleanupScan(dry)
    \/ \E created_folders \in CreatedFolders : CleanupCreated(created_folders)
    \/ CleanupFolder
    \/ CleanupAgain

SpecCleanup == InitCleanup /\ [][NextCleanup]_vars

(***************************************************************************)
(* The background tasks of the API and the event stream of one client      *)
(* (backend/api/main.py 94-251, 380-407, 510-548).  The workers are        *)
(* coroutines of one event loop: a step is the code between two awaits;    *)
(* perform_file_moves runs in a thread of the executor, one item a step.   *)
(* Every organize task loads the same data/plan.json, held in plan.        *)
(***************************************************************************)
MaxTasks == 2

TaskTypes == {"scan", "prompt", "organize"}
Terminal == {"completed", "failed"}

TaskPlans ==
    {[folders |-> <<<<Work>>>>, moves |-> ml] :
        ml \in {<<Move(<<a_txt>>, <<Work, a_txt>>), Move(<<b_txt>>, <<Work, b_txt>>)>>,
                <<Move(<<c_txt>>, <<Work, c_txt>>)>>}}

\* the tree of the tasks: the two files, no folder yet
TaskTrees == {t \in InitTrees : <<Work>> \notin DOMAIN t}

\* create_task(task_type): the new entry of tasks, with the locals of its worker
NewTask(task_type, dry) ==
    [type |-> task_type, status |-> "pending", updated_at |-> 0, at |-> "pending",
     dry_run |-> dry, issues |-> <<>>, idx |-> 0, successful_moves |-> 0, failed_moves |-> 0,
     error |-> ""]

\* update_task(task_id, status=...): updated_at is datetime.now() read again,
\* a later reading or, for two updates that follow each other closely (the
\* last progress message and the final status), the same reading as before
update_task(ts, task_id, status, later) ==
    [ts EXCEPT ![task_id].status = status,
               ![task_id].updated_at = IF later THEN @ + 1 ELSE @]

\* the folder loop of perform_file_moves (organize.py 127-133) from folder k on
RECURSIVE create_folders(_, _, _, _)
create_folders(f, folders, k, dry) ==
    IF k > Len(folders) THEN [raised |-> FALSE, fs |-> f]
    ELSE LET mk == IF ~exists(f, folders[k]) /\ ~dry THEN makedirs(f, folders[k])
                   ELSE [raised |-> FALSE, fs |-> f]
         IN  IF mk.raised THEN mk ELSE create_folders(mk.fs, folders, k + 1, dry)

InitTasks ==
    /\ fs \in TaskTrees
    /\ plan \in TaskPlans
    /\ offered = "tasks"
    /\ budget = [organize |-> 0, revert |-> 0]
    /\ backupFile = <<>> /\ resultsFile = <<>> /\ archive = [t \in 0..MaxClock |-> <<>>]
    /\ clock = 0 /\ pc = "idle" /\ mode = "api" /\ task = "none"
    /\ dry_run = FALSE /\ issues = <<>> /\ idx = 0 /\ folders_created = {}
    /\ successful_moves = 0 /\ failed_moves = <<>> /\ ret = ""
    /\ manifest_file = Backup /\ manifest = <<>> /\ response = ""
    /\ successful_reverts = 0 /\ failed_reverts = <<>> /\ integrity_warnings = <<>>
    /\ cleanup_count = 0 /\ pre = <<>> /\ last = <<>>
    /\ tasks = <<>> /\ stream = NoStream

\* what a step of the API leaves alone
process_locals == <<clock, offered, budget, pc, mode, task, exec_locals, idx, ret, revert_locals,
                    pre, last>>

\* start_scan, generate_prompt, organize_files: create_task and add_task
CreateTask(task_type, dry) ==
    /\ Len(tasks) < MaxTasks
    /\ task_type # "organize" => ~dry
    /\ tasks' = Append(tasks, NewTask(task_type, dry))
    /\ UNCHANGED <<disk, process_locals, stream>>

\* the first statement of every worker: update_task(task_id, status="running")
TaskRunning(task_id) ==
    /\ task_id \in DOMAIN tasks /\ tasks[task_id].at = "pending"
    /\ tasks' = [update_task(tasks, task_id, "running", TRUE) EXCEPT ![task_id].at = "working"]
    /\ UNCHANGED <<disk, process_locals, stream>>

\* TaskWork without the except clause: the exception ends the worker and the
\* status stays as it is
TaskWorkWithoutExcept(task_id, raises, later) ==
    /\ task_id \in DOMAIN tasks /\ tasks[task_id].at = "working"
    /\ tasks[task_id].type # "organize"
    /\ tasks' = IF raises THEN [tasks EXCEPT ![task_id].at = "done",
                                             ![task_id].error = "Exception"]
                ELSE [update_task(tasks, task_id, "completed", later)
                        EXCEPT ![task_id].at = "done"]
    /\ UNCHANGED <<disk, process_locals, stream>>

\* scan_directory_async and generate_prompt_async from there on: the work
\* returns or raises (lines 116-171, 173-200)
TaskWork(task_id, raises, later) ==
    /\ task_id \in DOMAIN tasks /\ tasks[task_id].at = "working"
    /\ tasks[task_id].type # "organize"
    /\ tasks' = [update_task(tasks, task_id, IF raises THEN "failed" ELSE "completed", later)
                    EXCEPT ![task_id].at = "done",
                           ![task_id].error = IF raises THEN "Exception" ELSE ""]
    /\ UNCHANGED <<disk, process_locals, stream>>

\* organize_files_async, lines 210-229: validate_plan, create_backup_manifest
TaskValidate(task_id, later) ==
    /\ task_id \in DOMAIN tasks /\ tasks[task_id].at = "working"
    /\ tasks[task_id].type = "organize"
    /\ LET v == validate_plan(fs, plan)
       IN  IF v.raised \/ v.issues # <<>>
           THEN /\ tasks' = [update_task(tasks, task_id, "failed", later)
                                EXCEPT ![task_id].at = "done",
                                       ![task_id].error = IF v.raised THEN "KeyError"
                                                          ELSE "ValueError"]
                /\ backupFile' = backupFile
           ELSE /\ tasks' = [update_task(tasks, task_id, "running", TRUE)
                                EXCEPT ![task_id].at = "thread"]
                /\ backupFile' = IF tasks[task_id].dry_run THEN backupFile
                                 ELSE <<create_backup_manifest(fs, plan, clock)>>
    /\ UNCHANGED <<fs, resultsFile, archive, process_locals, stream>>

\* perform_file_moves in the executor, lines 112-139 of organize.py: it
\* validates once more, writes the manifest and creates the folders
TaskBatchStart(task_id) ==
    /\ task_id \in DOMAIN tasks /\ tasks[task_id].at = "thread"
    /\ LET v == validate_plan(fs, plan)
           dry == tasks[task_id].dry_run
           mk == create_folders(fs, folders_of(plan), 1, dry)
       IN  IF v.raised \/ v.issues # <<>>
           THEN /\ tasks' = [tasks EXCEPT ![task_id].at = "results",
                                          ![task_id].issues = v.issues,
                                          ![task_id].error = IF v.raised THEN "KeyError" ELSE ""]
                /\ UNCHANGED <<fs, backupFile>>
           ELSE /\ backupFile' = IF dry THEN backupFile
                                 ELSE <<create_backup_manifest(fs, plan, clock)>>
                /\ fs' = mk.fs
                /\ tasks' = [tasks EXCEPT ![task_id].at = IF mk.raised \/ plan.moves = <<>>
                                                          THEN "results" ELSE "moves",
                                          ![task_id].error = IF mk.raised THEN "OSError" ELSE ""]
    /\ UNCHANGED <<resultsFile, archive, process_locals, stream>>

\* one item of its move loop, lines 141-185 of organize.py
TaskMove(task_id) ==
    /\ task_id \in DOMAIN tasks /\ tasks[task_id].at = "moves"
    /\ LET t == tasks[task_id]
           r == move_item(fs, plan.moves[t.idx + 1], t.dry_run, clock)
       IN  /\ fs' = r.fs
           /\ tasks' = [tasks EXCEPT
                 ![task_id].idx = @ + 1,
                 ![task_id].successful_moves = IF r.ok THEN @ + 1 ELSE @,
                 ![task_id].failed_moves = IF r.ok THEN @ ELSE @ + 1,
                 ![task_id].at = IF t.idx + 1 < Len(plan.moves) THEN "moves" ELSE "results"]
    /\ UNCHANGED <<backupFile, resultsFile, archive, process_locals, stream>>

\* perform_file_moves returns or raises, and the worker sets the final status
\* (organize.py 200-212, main.py 235-251)
TaskComplete(task_id, later) ==
    /\ task_id \in DOMAIN tasks /\ tasks[task_id].at = "results"
    /\ LET t == tasks[task_id]
           raised == t.error # ""
           ran == ~raised /\ t.issues = <<>>
       IN  /\ resultsFile' = IF ran /\ ~t.dry_run
                             THEN <<[timestamp |-> clock,
                                     successful_moves |-> t.successful_moves,
                                     failed_moves |-> t.failed_moves,
                                     folders_created |-> {}]>>
                             ELSE resultsFile
           /\ tasks' = [update_task(tasks, task_id, IF raised THEN "failed" ELSE "completed",
                                    later)
                           EXCEPT ![task_id].at = "done"]
    /\ UNCHANGED <<fs, backupFile, archive, process_locals, stream>>

\* the steps of the worker of one task
Worker(task_id) ==
    \/ TaskRunning(task_id)
    \/ \E raises, later \in BOOLEAN : TaskWork(task_id, raises, later)
    \/ \E later \in BOOLEAN : TaskValidate(task_id, later)
    \/ TaskBatchStart(task_id)
    \/ TaskMove(task_id)
    \/ \E later \in BOOLEAN : TaskComplete(task_id, later)

\* GET /api/events/{task_id}: 404 unless the task exists (lines 513-514)
Connect(task_id) ==
    /\ stream = NoStream
    /\ task_id \in DOMAIN tasks
    /\ stream' = [NoStream EXCEPT !.task_id = task_id, !.at = "top", !.connected = TRUE]
    /\ UNCHANGED <<disk, process_locals, tasks>>

\* event_generator from the top of the loop to its next suspension (lines
\* 519-536): the yield of an event, the sleep, or the end
Poll ==
    /\ stream.at = "top"
    /\ LET t == tasks[stream.task_id]
       IN  stream' =
             IF ~stream.connected THEN [stream EXCEPT !.at = "ended"]
             ELSE IF t.updated_at # stream.last_update
             THEN [stream EXCEPT !.last_update = t.updated_at,
                                 !.events = Append(@, t.status),
                                 !.at = "yielded"]
             ELSE IF t.status \in Terminal THEN [stream EXCEPT !.at = "ended"]
             ELSE stream
    /\ UNCHANGED <<disk, process_locals, tasks>>

\* event_generator resumed after the yield (lines 533-537): task is the dict
\* itself, so the status read here is the one of now
Resume ==
    /\ stream.at = "yielded"
    /\ stream' = [stream EXCEPT !.at = IF tasks[stream.task_id].status \in Terminal
                                        THEN "ended" ELSE "top"]
    /\ UNCHANGED <<disk, process_locals, tasks>>

\* Disconnect that also ends the task of the stream
DisconnectCancelling ==
    /\ stream.connected /\ stream.at \in {"top", "yielded"}
    /\ stream' = [stream EXCEPT !.connected = FALSE,
                                !.left_at = tasks[stream.task_id].status]
    /\ tasks' = IF tasks[stream.task_id].status \in Terminal THEN tasks
                ELSE [tasks EXCEPT ![stream.task_id].status = "failed",
                                   ![stream.task_id].at = "done"]
    /\ UNCHANGED <<disk, process_locals>>

\* the client closes the connection: request.is_disconnected() is true from now on
Disconnect ==
    /\ stream.connected /\ stream.at \in {"top", "yielded"}
    /\ stream' = [stream EXCEPT !.connected = FALSE,
                                !.left_at = tasks[stream.task_id].status]
    /\ UNCHANGED <<disk, process_locals, tasks>>

NextTasks ==
    \/ \E task_type \in TaskTypes, dry \in BOOLEAN : CreateTask(task_type, dry)
    \/ \E task_id \in 1..MaxTasks : Worker(task_id)
    \/ \E task_id \in 1..MaxTasks : Connect(task_id)
    \/ Poll
    \/ Resume
    \/ Disconnect

SpecTasks == InitTasks /\ [][NextTasks]_vars

\* The tasks alone.  No step of the stream changes a task (see C33), so what
\* becomes of a task is decided by CreateTask and the workers.
NextWorkers ==
    \/ \E task_type \in TaskTypes, dry \in BOOLEAN : CreateTask(task_type, dry)
    \/ \E task_id \in 1..MaxTasks : Worker(task_id)

\* the event loop and the executor go on running the workers: as long as a
\* worker can take a step, some worker does
FairWorkers == WF_vars(\E task_id \in 1..MaxTasks : Worker(task_id))

SpecWorkersFair == InitTasks /\ [][NextWorkers]_vars /\ FairWorkers

\* one execution of a plan whose paths may lead out of the root, and one
\* revert of its manifest
InitEscape ==
    /\ fs \in EscapeTrees
    /\ offered = "escaping"
    /\ budget = [organize |-> 1, revert |-> 1]
    /\ backupFile = <<>> /\ resultsFile = <<>> /\ archive = [t \in 0..MaxClock |-> <<>>]
    /\ clock = 0 /\ pc = "idle" /\ mode = "" /\ task = "none" /\ plan = NoPlan
    /\ dry_run = FALSE /\ issues = <<>> /\ idx = 0 /\ folders_created = {}
    /\ successful_moves = 0 /\ failed_moves = <<>> /\ ret = ""
    /\ manifest_file = Backup /\ manifest = <<>> /\ response = ""
    /\ successful_reverts = 0 /\ failed_reverts = <<>> /\ integrity_warnings = <<>>
    /\ cleanup_count = 0 /\ pre = <<>> /\ last = <<>>
    /\ tasks = <<>> /\ stream = NoStream

NextEscape ==
    \/ \E p \in Offered(offered), dry \in BOOLEAN : Organize(p, dry)
    \/ Validate
    \/ WriteManifest
    \/ CreateFolder
    \/ MoveFile
    \/ SaveResults
    \/ Revert(Backup)
    \/ \E answer \in Answers : Confirm(answer)
    \/ RevertFile
    \/ Cleanup
    \/ ArchiveManifest
    \/ Exit

SpecEscape == InitEscape /\ [][NextEscape]_vars

(***************************************************************************)
(* The claims.                                                             *)
(***************************************************************************)
\* states the claims speak about
Executed ==      \* a non-dry execution of a valid plan has returned
    /\ pc = "done" /\ manifest = <<>> /\ ~dry_run /\ issues = <<>>
    /\ ret \in {"True", "False"}

Reverted ==      \* a confirmed revert has archived its manifest and returned
    pc = "done" /\ manifest # <<>> /\ lower(response) = "yes"

AfterExecution ==   \* ... of the manifest a returned execution has just written
    /\ Reverted /\ manifest_file = Backup /\ last # <<>>
    /\ last[1].op = "organize" /\ last[1].ended = "returned" /\ ~last[1].dry_run
    /\ last[1].manifest_written /\ last[1].ret \in {"True", "False"}

AfterManifestOnly ==  \* ... of the manifest of an execution killed before it changed anything
    /\ Reverted /\ manifest_file = Backup /\ last # <<>>
    /\ last[1].op = "organize" /\ last[1].ended = "killed"
    /\ last[1].manifest_written /\ ~last[1].changed

\* the files of a tree: path |-> content
Files(f) == [p \in {q \in DOMAIN f : f[q].kind = "file"} |-> f[p].content]

Restored(f, before, p) == is_file(f, p) /\ f[p] = before[p]

\* C1: round trip: after perform_file_moves(dry_run=False) of a valid plan and
\* a confirmed revert_organization, every file the plan names is at its
\* original path with the content it had before the execution.
C1_RoundTrip ==
    AfterExecution =>
        \A k \in 1..Len(last[1].plan.moves) :
            Restored(fs, last[1].pre, source_of(last[1].plan.moves[k]))

\* C6: a revert of the manifest of an execution that stopped right after
\* create_backup_manifest reports no failure and leaves every file where it was.
C6_CrashAfterManifest ==
    AfterManifestOnly => failed_reverts = <<>> /\ Files(fs) = Files(pre)

\* C8: a second revert_organization of a manifest that has been reverted
\* completes with no failure and moves no file.
C8_IdempotentRevert ==
    (/\ Reverted /\ last # <<>> /\ last[1].op = "revert" /\ last[1].ended = "returned"
     /\ last[1].confirmed /\ last[1].manifest = manifest)
        => failed_reverts = <<>> /\ Files(fs) = Files(pre)

Contents(f) == {f[p].content : p \in {q \in DOMAIN f : f[q].kind = "file"}}

\* C4: no step of any execution or revert loses a file content that was under
\* the root.
C4_NoDataLoss == [][Contents(fs) \subseteq Contents(fs')]_vars

\* C10: a dry run reports the success count, the failures and the created
\* folders that the real execution started from the same state reports.
C10_DryRunReportsIdentically ==
    (/\ Executed /\ last # <<>> /\ last[1].op = "organize" /\ last[1].dry_run
     /\ last[1].ended = "returned" /\ last[1].plan = plan /\ last[1].pre = pre
     /\ last[1].ret \in {"True", "False"})
        => /\ last[1].successful = successful_moves
           /\ last[1].failed = failed_moves
           /\ last[1].folders_created = folders_created

\* the move that MoveFile processes next, and the record RevertFile processes next
ThisMove == plan.moves[idx]
ThisRecord == manifest[1].original_state[idx]

\* C2: whenever, in a non-dry execution, the destination of the move being
\* processed is occupied, the incoming file is stored under the
\* timestamp-suffixed name in the same directory and the occupant is still at
\* the destination with unchanged content.
C2_NoOverwriteInExecution ==
    [][(/\ MoveFile /\ ~dry_run
        /\ is_file(fs, source_of(ThisMove)) /\ exists(fs, ThisMove.new_path))
       => /\ is_file(fs', new_name(ThisMove.new_path, clock))
          /\ fs'[new_name(ThisMove.new_path, clock)] = fs[source_of(ThisMove)]
          /\ exists(fs', ThisMove.new_path)
          /\ fs'[ThisMove.new_path] = fs[ThisMove.new_path]]_vars

\* C3: whenever, in a revert, the original path of the record being processed
\* is occupied and its file is at new_path, afterwards the original path holds
\* the file that was at new_path and the occupant's content is at the
\* conflict-suffixed name.
C3_NoOverwriteInRevert ==
    [][(/\ RevertFile
        /\ is_file(fs, ThisRecord.new_path) /\ is_file(fs, ThisRecord.original_path))
       => /\ is_file(fs', ThisRecord.original_path)
          /\ fs'[ThisRecord.original_path] = fs[ThisRecord.new_path]
          /\ is_file(fs', backup_name(ThisRecord.original_path, clock))
          /\ fs'[backup_name(ThisRecord.original_path, clock)]
                 = fs[ThisRecord.original_path]]_vars

Organizing == Running /\ manifest = <<>>

\* C5: in a non-dry execution of a valid plan the manifest of the plan, taken
\* from the tree as it was before the execution, is in the backup file before
\* any step changes the tree, and the step that writes it finds and leaves the
\* tree as it was, with no folder created and no move counted.
C5_ManifestPrecedesMutation ==
    [][(Organizing /\ ~dry_run)
       => /\ fs' # fs =>
                /\ backupFile # <<>>
                /\ backupFile[1] =
                       create_backup_manifest(pre, plan, backupFile[1].timestamp)
          /\ backupFile' # backupFile =>
                /\ fs = pre /\ fs' = pre
                /\ folders_created' = {} /\ successful_moves' = 0
                /\ backupFile' = <<create_backup_manifest(pre, plan, clock)>>]_vars

C5_Witness ==
    /\ pc = "results" /\ ~dry_run /\ backupFile # <<>>
    /\ folders_created # {} /\ successful_moves > 0 /\ fs # pre

Invalid == LET v == validate_plan(pre, plan) IN v.raised \/ v.issues # <<>>

\* C7: while perform_file_moves or the organize task runs on a plan for which
\* validate_plan reports an issue, no step changes the tree, the backup
\* manifest, the results record or the archive, it does not end with success,
\* and the API task ends as failed.
C7_ValidationGating ==
    [][(Organizing /\ Invalid)
       => /\ UNCHANGED disk
          /\ pc' = "done" => /\ ret' \in {"False", "ValueError", "KeyError"}
                             /\ mode = "api" => task' = "failed"
          /\ pc' \notin {"api_complete", "results"}]_vars

C7_Witness ==
    /\ pc = "done" /\ manifest = <<>> /\ issues # <<>>
    /\ mode = "api" /\ task = "failed" /\ ~dry_run

\* C9: no step of a dry run changes the tree, the backup manifest, the results
\* record or the archive.
C9_DryRunMutatesNothing == [][(pc # "idle" /\ dry_run) => UNCHANGED disk]_vars

C9_Witness ==
    /\ pc = "done" /\ dry_run /\ ret = "True" /\ folders_created # {}
    /\ \E k \in 1..Len(plan.moves) : exists(fs, plan.moves[k].new_path)

\* C11: in both loops every item is processed once, in order, and ends as
\* exactly one of success or recorded failure: while the batch runs the
\* successes and failures together count the items processed so far, each step
\* of a loop adds exactly one to them, and after the batch they count all items.
C11_BestEffortBatch ==
    /\ [](/\ pc = "moves" => successful_moves + Len(failed_moves) = idx - 1
          /\ pc = "results" => successful_moves + Len(failed_moves) = Len(plan.moves)
          /\ pc = "reverting" => successful_reverts + Len(failed_reverts) = idx - 1
          /\ pc \in {"cleanup", "archive"} =>
                successful_reverts + Len(failed_reverts) = Len(manifest[1].original_state))
    /\ [][/\ (pc = "moves" /\ idx' # idx /\ pc' \in {"moves", "results"}) =>
                successful_moves' + Len(failed_moves')
                    = successful_moves + Len(failed_moves) + 1
          /\ (pc = "reverting" /\ idx' # idx /\ pc' \in {"reverting", "cleanup"}) =>
                successful_reverts' + Len(failed_reverts')
                    = successful_reverts + Len(failed_reverts) + 1]_vars

\* a revert whose first record failed and whose second record succeeded
C11_Witness ==
    /\ pc = "cleanup" /\ Len(manifest[1].original_state) = 2
    /\ successful_reverts = 1 /\ Len(failed_reverts) = 1
    /\ failed_reverts[1].file = manifest[1].original_state[1].new_path

\* C12: while a non-dry execution attempts its moves, the persisted manifest
\* holds, in plan order, one record per move of the plan, with the move's source
\* as original_path and the move's new_path as new_path.
C12_RecordedBeforeAttempt ==
    (Organizing /\ ~dry_run /\ pc = "moves") =>
        /\ backupFile # <<>>
        /\ Len(backupFile[1].original_state) = Len(plan.moves)
        /\ \A k \in 1..Len(plan.moves) :
              /\ backupFile[1].original_state[k].original_path = source_of(plan.moves[k])
              /\ backupFile[1].original_state[k].new_path = plan.moves[k].new_path

C12_Witness ==
    /\ Organizing /\ ~dry_run /\ pc = "moves" /\ idx = 2 /\ successful_moves = 1
    /\ source_of(plan.moves[1]) # source_of(plan.moves[2])

\* C13: after a confirmed revert has returned, no manifest is at the path it
\* was loaded from, and the manifest is in the archive directory.
C13_ArchiveUnconditional ==
    Reverted =>
        /\ read_manifest(backupFile, archive, manifest_file) = <<>>
        /\ \E t \in DOMAIN archive : archive[t] = manifest

Archives(ar) == {t \in DOMAIN ar : ar[t] # <<>>}

\* C14: every archive_manifest call adds one file to the archive directory and
\* leaves every manifest archived before in place.
C14_ArchiveNeverOverwrites ==
    [][(pc = "archive" /\ pc' = "done")
       => /\ \A t \in Archives(archive) : archive'[t] = archive[t]
          /\ Cardinality(Archives(archive')) = Cardinality(Archives(archive)) + 1]_vars

\* C15: a non-dry execution that writes its manifest leaves the manifest of an
\* earlier execution retrievable, in the backup file or in the archive.
C15_ManifestSurvivesNextExecution ==
    [][(Organizing /\ ~ManifestWritten /\ backupFile # <<>> /\ backupFile' # backupFile)
       => \/ backupFile[1] \in {archive'[t][1] : t \in Archives(archive')}
          \/ backupFile'[1] = backupFile[1]]_vars

\* C16: the manifest is written once per execution attempt: once it is
\* written, no later step of the execution changes the backup file; a revert
\* changes the backup file only by archiving it, with the content it loaded.
C16_ManifestImmutable ==
    [][/\ (Organizing /\ ManifestWritten) => backupFile' = backupFile
       /\ (Reverting /\ pc' # "idle") =>
             \/ UNCHANGED <<backupFile, archive>>
             \/ /\ pc = "archive"
                /\ \E t \in DOMAIN archive : archive'[t] = manifest]_vars

\* the tree as it was before the execution that wrote the manifest being reverted
BeforeExecution == last[1].pre

OfExecution == last # <<>> /\ last[1].op = "organize" /\ last[1].pre # <<>>

\* C17: the cleanup of a revert removes no directory that was in the tree
\* before the originating execution.
C17_CleanupOnlyCreatedFolders ==
    [][(pc = "cleanup" /\ pc' = "archive" /\ OfExecution)
       => \A p \in DOMAIN fs \ DOMAIN fs' : p \notin DOMAIN BeforeExecution]_vars

\* C18: after a non-dry execution and a revert of it with no failure, no
\* directory that the execution created is left as an empty directory.
C18_NoEmptyCreatedFolderLeft ==
    (AfterExecution /\ failed_reverts = <<>>)
        => \A p \in DOMAIN fs :
              (is_dir(fs, p) /\ p \notin DOMAIN BeforeExecution) => iterdir(fs, p) # {}

\* C19: a revert_organization called with a manifest path at which no file
\* exists ends with the not-found error at once: no confirmation is asked, and
\* the tree, the backup file, the results record and the archive are unchanged.
C19_MissingManifestIsFatal ==
    [][(/\ pc = "idle" /\ budget'.revert < budget.revert
        /\ read_manifest(backupFile, archive, manifest_file') = <<>>)
       => /\ pc' = "done" /\ ret' = "FileNotFoundError"
          /\ response' = "" /\ manifest' = <<>>
          /\ UNCHANGED disk]_vars

\* a revert of an archive path that holds nothing, while other manifests exist
C19_Witness ==
    /\ pc = "done" /\ ret = "FileNotFoundError" /\ manifest_file = Archived(1)
    /\ archive[0] # <<>>

\* C20: validate_plan never raises, and its issues name every required field
\* that a move of the plan lacks, with the index of the move.
C20_ValidationAccumulates ==
    /\ ret # "KeyError"
    /\ (pc = "done" /\ manifest = <<>>) =>
          \A k \in 1..Len(plan.moves) :
             \A n \in 1..Len(RequiredFields) :
                RequiredFields[n] \notin DOMAIN plan.moves[k] =>
                   \E j \in 1..Len(issues) :
                      issues[j] = Issue(k - 1, "Missing required field", RequiredFields[n], <<>>)

\* validate_plan has been called on plan and the tree pre
Validated == pc \in {"manifest", "done"} /\ manifest = <<>> /\ mode = "cli"

HasFields(move) == \A n \in 1..Len(RequiredFields) : RequiredFields[n] \in DOMAIN move

Valid(f, p) ==
    /\ "moves" \in DOMAIN p
    /\ \A k \in 1..Len(p.moves) :
          /\ HasFields(p.moves[k])
          /\ has_source(p.moves[k]) /\ exists(f, source_of(p.moves[k]))
          /\ \A j \in 1..Len(p.moves) : j # k => p.moves[j].new_path # p.moves[k].new_path

\* C21: validate_plan returns the empty list exactly for the plans that have a
\* 'moves' key, all required fields, existing sources and pairwise different
\* new_paths; a missing source at index i yields an issue naming i and the source.
C21_EmptyMeansValid ==
    Validated =>
        /\ (issues = <<>> /\ ret # "KeyError") <=> Valid(pre, plan)
        /\ "moves" \in DOMAIN plan =>
              \A k \in 1..Len(plan.moves) :
                 (has_source(plan.moves[k]) /\ ~exists(pre, source_of(plan.moves[k]))) =>
                    \E j \in 1..Len(issues) :
                       issues[j] = Issue(k - 1, "Source file not found", "",
                                         source_of(plan.moves[k]))

\* the move indices that the text of an issue names
IndicesNamed(issue) == {issue.move}

\* the index of the first move of the plan that targets dest
FirstTargeting(p, dest) ==
    CHOOSE k \in 0..Len(p.moves) - 1 :
        /\ get(p.moves[k + 1], "new_path", <<>>) = dest
        /\ \A j \in 0..k - 1 : get(p.moves[j + 1], "new_path", <<>>) # dest

\* C22: every duplicate-destination issue names the index of the first move
\* that targets the destination and the index of the later move, and k moves
\* on one new_path yield k-1 such issues.
C22_DuplicateDestinations ==
    (Validated /\ ret # "KeyError" /\ "moves" \in DOMAIN plan) =>
        /\ \A j \in 1..Len(issues) :
              issues[j].kind = "Duplicate destination" =>
                 {FirstTargeting(plan, issues[j].path), issues[j].move}
                     \subseteq IndicesNamed(issues[j])
        /\ \A k \in 1..Len(plan.moves) :
              LET dest == get(plan.moves[k], "new_path", <<>>)
              IN  Cardinality({j \in 1..Len(issues) :
                                 issues[j].kind = "Duplicate destination" /\ issues[j].path = dest})
                  = Cardinality({j \in 1..Len(plan.moves) :
                                   get(plan.moves[j], "new_path", <<>>) = dest}) - 1

\* C23: for a plan without a 'moves' key validate_plan returns exactly one
\* issue, the one about the key, and perform_file_moves reports failure.
C23_MissingMovesKey ==
    (Validated /\ "moves" \notin DOMAIN plan) =>
        /\ issues = <<Issue(0, "Missing 'moves' key in plan", "", <<>>)>>
        /\ pc = "done" /\ ret = "False"

C23_Witness ==
    /\ Validated /\ "moves" \notin DOMAIN plan /\ "files" \in DOMAIN plan
    /\ Len(issues) = 1 /\ ret = "False"

\* C24: every record that create_backup_manifest writes has a file_hash exactly
\* when its source is a file smaller than BACKUP_HASH_SIZE_LIMIT; a source of
\* that size or more is recorded with file_hash = None.
C24_HashThreshold ==
    [][(pc = "manifest" /\ ~dry_run /\ backupFile' # backupFile) =>
          \A k \in 1..Len(backupFile'[1].original_state) :
             LET record == backupFile'[1].original_state[k]
             IN  (record.file_hash # None) <=>
                     (/\ is_file(fs, record.original_path)
                      /\ st_size(fs, record.original_path) < BACKUP_HASH_SIZE_LIMIT)]_vars

\* revert_organization processes the record at idx
RevertsRecord == pc = "reverting" /\ manifest # <<>> /\ idx' # idx /\ pc' \in {"reverting", "cleanup"}

\* C25: a record whose new_path does not exist leaves the tree as it is; it is
\* counted as a success when its original_path exists, and is otherwise
\* recorded as the failure 'File not found in current location'.
C25_AbsentAtNewPath ==
    [][(RevertsRecord /\ ~exists(fs, ThisRecord.new_path)) =>
          /\ fs' = fs
          /\ IF exists(fs, ThisRecord.original_path)
             THEN /\ successful_reverts' = successful_reverts + 1
                  /\ failed_reverts' = failed_reverts
             ELSE /\ successful_reverts' = successful_reverts
                  /\ failed_reverts' =
                        Append(failed_reverts,
                               [file |-> ThisRecord.new_path,
                                error |-> "File not found in current location"])]_vars

\* the revert of a manifest whose execution was killed before its only move:
\* nothing is at new_path, the file is at its original path, one success
C25_Witness ==
    /\ pc = "cleanup" /\ manifest # <<>> /\ OfExecution /\ last[1].ended = "killed"
    /\ Len(manifest[1].original_state) = 1
    /\ manifest[1].original_state[1].new_path # manifest[1].original_state[1].original_path
    /\ ~exists(fs, manifest[1].original_state[1].new_path)
    /\ exists(fs, manifest[1].original_state[1].original_path)
    /\ fs = BeforeExecution
    /\ successful_reverts = 1 /\ failed_reverts = <<>>

\* the file at the new_path of the record at idx is not the one that was hashed
Modified ==
    /\ exists(fs, ThisRecord.new_path) /\ ThisRecord.file_hash # None
    /\ calculate_file_hash(fs, ThisRecord.new_path) # ThisRecord.file_hash

\* C26: a record whose file at new_path has another hash than the recorded
\* one adds one integrity warning, is moved back to its original path and is
\* counted as a success, not as a failure.
C26_IntegrityAdvisory ==
    [][(RevertsRecord /\ Modified) =>
          /\ integrity_warnings' = Append(integrity_warnings, ThisRecord.new_path)
          /\ successful_reverts' = successful_reverts + 1
          /\ failed_reverts' = failed_reverts
          /\ exists(fs', ThisRecord.original_path)
          /\ fs'[ThisRecord.original_path] = fs[ThisRecord.new_path]]_vars

\* perform_file_moves has returned from a plan without issues (dry or not)
Reported ==
    /\ pc = "done" /\ mode = "cli" /\ manifest = <<>> /\ issues = <<>>
    /\ ret \in {"True", "False"}

\* C27: perform_file_moves of a valid plan returns True exactly when it has
\* counted at least one successful move, whatever is in its failure list.
C27_SuccessContract ==
    Reported => (ret = "True" <=> successful_moves > 0)

C27_Witness ==
    Reported /\ ret = "True" /\ successful_moves = 1 /\ Len(failed_moves) = 1

\* the folders of the plan, as a set
PlanFolders == {folders_of(plan)[k] : k \in 1..Len(folders_of(plan))}

\* C28: once a non-dry execution has gone through plan.folders, every folder
\* of the plan exists and folders_created is the set of the plan's folders
\* that did not exist when the execution started.
C28_FolderCreation ==
    (Organizing /\ ~dry_run /\ mode = "cli" /\ pc \in {"moves", "results"}) =>
        /\ \A folder \in PlanFolders : is_dir(fs, folder)
        /\ folders_created = {folder \in PlanFolders : ~exists(pre, folder)}

\* C29: a step of either cleaner removes at most directories that have no
\* entry when they are removed: no file and no directory with an entry goes
\* away, nothing is added, and what stays is unchanged at its path.
C29_OnlyEmptyDirectories ==
    [][pc = "cleanup_pass" =>
          /\ \A p \in DOMAIN fs \ DOMAIN fs' : is_dir(fs, p) /\ iterdir(fs, p) = {}
          /\ DOMAIN fs' \subseteq DOMAIN fs
          /\ \A p \in DOMAIN fs' : fs'[p] = fs[p]
          /\ Files(fs') = Files(fs)]_vars

\* the cleaner of backup.py has removed a folder and left a folder with a file
C29_Witness ==
    /\ pc = "cleaned" /\ mode = "backup" /\ cleanup_count >= 1
    /\ \E k \in 1..Len(plan.folders) :
          is_dir(fs, plan.folders[k]) /\ iterdir(fs, plan.folders[k]) # {}
    /\ Files(fs) = Files(pre) /\ DOMAIN fs # DOMAIN pre

\* the directories the cleaner was asked to look at
Candidates ==
    IF mode = "organize" THEN {p \in rglob(pre) : is_dir(pre, p)}
    ELSE {plan.folders[k] : k \in 1..Len(plan.folders)}

\* no call of the pass on the tree f fails
NoFailure(f) == \A p \in DOMAIN f : ~rmdir_raises(f, p) /\ ~iterdir_raises(f, p)

\* C30: a pass looks at a directory before it looks at any of its ancestors;
\* when a removing pass in which nothing fails is over no candidate is an empty
\* directory, and the same call made again leaves the tree as it is.
C30_DeepestFirst ==
    /\ pc = "cleanup_pass" =>
          \A i, j \in 1..Len(PassList) :
             (i < j /\ PassList[i] # PassList[j]) => ~IsPrefix(PassList[i], PassList[j])
    /\ (pc = "cleaned" /\ ~dry_run /\ NoFailure(pre)) =>
          \A p \in Candidates : ~(p \in DOMAIN fs /\ is_dir(fs, p) /\ iterdir(fs, p) = {})
    /\ (pc \in {"cleanup_pass", "cleaned"} /\ ~dry_run /\ last # <<>> /\ NoFailure(pre)) =>
          fs = pre /\ cleanup_count = 0

\* the second pass is over; the first one removed a folder and then its parent
C30_Witness ==
    /\ pc = "cleaned" /\ ~dry_run /\ last # <<>> /\ last[1].removed_count >= 2
    /\ NoFailure(last[1].pre)
    /\ <<Work, Sub>> \in DOMAIN last[1].pre /\ <<Work>> \notin DOMAIN fs

\* the folders cleanup_empty_folders(dry_run) of organize.py returns for the
\* tree f: empty_folders, as a set
Returned(f, dry) ==
    LET r == scan_from(f, sorted_reverse(rglob(f)), 1, <<>>, dry)
    IN  {r.empty_folders[k] : k \in 1..Len(r.empty_folders)}

\* C31: cleanup_empty_folders(dry_run=True) leaves the tree as it is and
\* returns the folders that cleanup_empty_folders(dry_run=False) removes from
\* the same tree.
C31_CleanupDryRun ==
    (pc = "cleaned" /\ mode = "organize" /\ dry_run /\ last = <<>> /\ NoFailure(pre)) =>
        /\ fs = pre
        /\ cleanup_count = Cardinality(Returned(pre, TRUE))
        /\ Returned(pre, TRUE)
             = DOMAIN pre \ DOMAIN scan_from(pre, sorted_reverse(rglob(pre)), 1, <<>>, FALSE).fs

\* C32: a call that fails inside a pass of either cleaner does not end the
\* pass: every other candidate that is an empty directory is removed, and the
\* count (the length of the list) that is returned is the number of the
\* directories that were removed.
C32_CleanupFailuresSwallowed ==
    (pc = "cleaned" /\ ~dry_run) =>
        /\ \A p \in Candidates :
              (p \in DOMAIN fs /\ is_dir(fs, p) /\ iterdir(fs, p) = {}) =>
                  rmdir_raises(fs, p) \/ iterdir_raises(fs, p)
        /\ cleanup_count = Cardinality(DOMAIN pre \ DOMAIN fs)

\* the task exists and has the status
HasStatus(task_id, statuses) == task_id \in DOMAIN tasks /\ tasks[task_id].status \in statuses

\* C36: a task is created pending, goes from pending to running only and from
\* running to completed or failed only, keeps a completed or failed status for
\* ever, and every task that was created ends completed or failed.
C36_TaskLifecycle ==
    /\ [][\A task_id \in DOMAIN tasks' :
            IF task_id \notin DOMAIN tasks THEN tasks'[task_id].status = "pending"
            ELSE \/ tasks'[task_id].status = tasks[task_id].status
                 \/ tasks[task_id].status = "pending" /\ tasks'[task_id].status = "running"
                 \/ tasks[task_id].status = "running" /\ tasks'[task_id].status \in Terminal]_vars
    /\ \A task_id \in 1..MaxTasks :
          HasStatus(task_id, {"pending", "running"}) ~> HasStatus(task_id, Terminal)

\* an organize task has failed by an exception of validate_plan while another
\* task is completed
C36_Witness ==
    /\ HasStatus(1, {"failed"}) /\ tasks[1].type = "organize" /\ tasks[1].error = "ValueError"
    /\ HasStatus(2, {"completed"}) /\ tasks[2].type = "scan"

\* the client of the stream has disconnected while its organize task was running
LeftWhileRunning(task_id) ==
    /\ stream.task_id = task_id /\ ~stream.connected /\ stream.left_at = "running"
    /\ task_id \in DOMAIN tasks /\ tasks[task_id].type = "organize"

\* C33: a step of the event stream (the disconnection of its client and the
\* end of the generator included) changes no task and nothing on the disk; an
\* organize task whose client has left while it was running is not stopped:
\* until it is completed or failed its worker can take its next step, and
\* when its perform_file_moves has run the move loop it has processed every
\* move of the plan.
C33_NoCancellationByStream ==
    /\ [][stream' # stream =>
            tasks' = tasks /\ fs' = fs /\ backupFile' = backupFile]_vars
    /\ [](\A task_id \in 1..MaxTasks :
            (LeftWhileRunning(task_id) /\ ~HasStatus(task_id, Terminal)) =>
                ENABLED Worker(task_id))
    /\ [](\A task_id \in 1..MaxTasks :
            (LeftWhileRunning(task_id) /\ tasks[task_id].status = "completed"
             /\ tasks[task_id].issues = <<>>) =>
                /\ tasks[task_id].idx = Len(plan.moves)
                /\ tasks[task_id].successful_moves + tasks[task_id].failed_moves
                     = Len(plan.moves))

\* the client left before the first move, and both moves were made afterwards
C33_Witness ==
    /\ LeftWhileRunning(1) /\ stream.at = "ended" /\ stream.events = <<"running">>
    /\ tasks[1].status = "completed" /\ ~tasks[1].dry_run
    /\ tasks[1].successful_moves = 2
    /\ <<Work, a_txt>> \in DOMAIN fs /\ <<a_txt>> \notin DOMAIN fs

\* an organize task is in flight: created and not yet completed or failed
InFlight(task_id) ==
    /\ task_id \in DOMAIN tasks /\ tasks[task_id].type = "organize"
    /\ tasks[task_id].status \notin Terminal

\* the task is inside perform_file_moves, between its manifest and its results
Mutating(task_id) == InFlight(task_id) /\ tasks[task_id].at \in {"thread", "moves", "results"}

\* C34: at no time are two organize operations on the root in flight, and no
\* two of them are inside their executions at the same time.
C34_SingleWriterPerRoot ==
    \A t1, t2 \in 1..MaxTasks :
        (InFlight(t1) /\ InFlight(t2) /\ Mutating(t1) /\ Mutating(t2)) => t1 = t2

\* C37: when the generator has ended for a client that is still connected,
\* the task is completed or failed and the last event that was sent carries
\* that status.
C37_StreamEndsOnTerminalEvent ==
    (stream.at = "ended" /\ stream.connected) =>
        /\ tasks[stream.task_id].status \in Terminal
        /\ stream.events # <<>>
        /\ stream.events[Len(stream.events)] = tasks[stream.task_id].status

\* C35: when a move of a non-dry execution is counted as successful, the file
\* that was at its source is at the new_path of the move, which is the new_path
\* of its manifest record.
C35_ManifestRecordsRealLocation ==
    [][(Organizing /\ ~dry_run /\ pc = "moves" /\ idx' # idx
        /\ successful_moves' = successful_moves + 1) =>
          /\ is_file(fs', ThisMove.new_path)
          /\ fs'[ThisMove.new_path] = fs[source_of(ThisMove)]
          /\ \E k \in 1..Len(backupFile[1].original_state) :
                /\ backupFile[1].original_state[k].original_path = source_of(ThisMove)
                /\ backupFile[1].original_state[k].new_path = ThisMove.new_path]_vars

Answered ==      \* the prompt of a revert has been answered
    /\ pc \in {"reverting", "cleanup", "archive", "done"}
    /\ manifest # <<>> /\ response # ""

Untouched ==     \* the revert has failed, the tree and the manifest are as it found them
    /\ pc = "done" /\ ret = "False"
    /\ fs = pre
    /\ read_manifest(backupFile, archive, manifest_file) = manifest

\* C39 as stated: a revert whose prompt was answered with anything other than
\* the string 'yes' returns failure, moves no file, removes no folder and leaves
\* the manifest at its path.
C39_AnythingOtherThanYes ==
    (Answered /\ response # "yes") => Untouched

\* C39: a revert whose prompt was answered with anything that is not 'yes' in
\* any letter case returns failure, moves no file, removes no folder and leaves
\* the manifest at its path, where a later revert can load it again.
C39_DeclinedRevertChangesNothing ==
    (Answered /\ lower(response) # "yes") => Untouched

C39_Witness ==
    /\ Answered /\ response = "no" /\ Untouched
    /\ manifest[1].original_state # <<>>

\* what a tree holds outside the root
OutsideOf(f) == [p \in {q \in DOMAIN f : Outside(q)} |-> f[p]]

\* C38: no step of perform_file_moves on an accepted plan, of
\* revert_organization or of its cleanup creates, removes, moves or replaces
\* anything outside the root, whatever paths the plan holds.
C38_PathContainment ==
    [][OutsideOf(fs') = OutsideOf(fs)]_vars

====
